---- MODULE Spec2Model ----
(***************************************************************************)
(* The quiz session of src/src/App.js: the eight React state cells of the  *)
(* App component, the one asynchronous fetch of fetchQuestions, and the    *)
(* three event handlers, each reachable only through the button that       *)
(* renderContent puts on the screen.                                       *)
(***************************************************************************)
EXTENDS Integers, Sequences, FiniteSets, TLC

\* ------------------------------------------------------------------ bounds
\* The longest results array a modelled response carries.
MaxResults == 2

\* ------------------------------------------------------------- JS values
\* JavaScript null (useState(null) of selectedAnswer and error).
NULL == "<null>"

\* ------------------------------------------------------------- utilities
\* decodeHtml: the textarea trick turns entity syntax into the characters it
\* names and leaves every other string as it is.  Tabulated for the strings
\* that occur in the modelled responses.
decodeHtml(html) ==
    CASE html = "R&amp;B"        -> "R&B"
      [] html = "&quot;Q&quot;"  -> "\"Q\""
      [] html = "Who sang R&amp;B?"        -> "Who sang R&B?"
      [] html = "Who said &quot;Q&quot;?"  -> "Who said \"Q\"?"
      [] OTHER                   -> html

\* questionItem.incorrect_answers.map(decodeHtml)
MapDecode(arr) == [i \in 1..Len(arr) |-> decodeHtml(arr[i])]

\* Orders, had the shuffle drawn positions with repetition.
Orders_WithRepeats(n) == [1..n -> 1..n]

\* The orders a sort with a random comparator can leave n elements in.
Orders(n) == {f \in [1..n -> 1..n] : \A i, j \in 1..n : i # j => f[i] # f[j]}

\* shuffleArray: a copy of the array, sorted with a coin-flip comparator; the
\* result is the array's elements in an order the random source picks.
shuffleArray(array) ==
    {[i \in 1..Len(array) |-> array[f[i]]] : f \in Orders(Len(array))}

\* ------------------------------------------------------ the question bank
\* Raw records as the bank sends them (entity-escaped).  The last one lacks
\* its incorrect_answers field, so formatting it throws a TypeError.
RawPool ==
    { [question |-> "Capital of France?", correct_answer |-> "Paris",
       incorrect_answers |-> <<"Rome", "Berlin">>, has_incorrect |-> TRUE],
      [question |-> "Who sang R&amp;B?", correct_answer |-> "R&amp;B",
       incorrect_answers |-> <<"R&B">>, has_incorrect |-> TRUE],
      [question |-> "Who said &quot;Q&quot;?", correct_answer |-> "&quot;Q&quot;",
       incorrect_answers |-> <<"Paris">>, has_incorrect |-> TRUE],
      [question |-> "Broken", correct_answer |-> "Paris",
       incorrect_answers |-> <<>>, has_incorrect |-> FALSE] }

\* The results arrays a response may carry.
ResultsSet == UNION {[1..n -> RawPool] : n \in 0..MaxResults}

\* What a fetch can resolve to: the promise rejects (no network), or a
\* response arrives with an HTTP status and a body that parses as JSON or
\* does not.  Every body carries a response_code and results, also the
\* bodies of failed responses.
Responses ==
    {[rejected |-> TRUE, ok |-> FALSE, json |-> FALSE, response_code |-> 0,
      results |-> <<>>]}
    \cup
    {[rejected |-> FALSE, ok |-> TRUE, json |-> FALSE, response_code |-> 0,
      results |-> <<>>]}
    \cup
    [rejected : {FALSE}, ok : BOOLEAN, json : {TRUE}, response_code : {0, 1},
     results : ResultsSet]

\* ------------------------------------------------------------------ state
VARIABLES
    gameState,             \* 'start' | 'active' | 'finished'
    questions,             \* the formatted questions
    currentQuestionIndex,  \* 0-based
    score,
    selectedAnswer,        \* an answer string or NULL
    isAnswered,
    loading,
    error,                 \* a message or NULL
    inFlight,              \* fetches started and not yet resolved
    response,              \* history: <<r>> once this run's fetch resolved to r
    selections,            \* history: the answers selected in this run
    ignored                \* history: the intent that found no button since
                           \* the last change of state, or "none"

vars == <<gameState, questions, currentQuestionIndex, score, selectedAnswer,
          isAnswered, loading, error, inFlight, response, selections, ignored>>

\* The component's state as one value, for the handlers to map.
st == [gameState |-> gameState, questions |-> questions,
       currentQuestionIndex |-> currentQuestionIndex, score |-> score,
       selectedAnswer |-> selectedAnswer, isAnswered |-> isAnswered,
       loading |-> loading, error |-> error]

\* The next render sees the state s.
Render(s) ==
    /\ gameState' = s.gameState
    /\ questions' = s.questions
    /\ currentQuestionIndex' = s.currentQuestionIndex
    /\ score' = s.score
    /\ selectedAnswer' = s.selectedAnswer
    /\ isAnswered' = s.isAnswered
    /\ loading' = s.loading
    /\ error' = s.error

\* questions[currentQuestionIndex] (JavaScript counts from 0).
currentQuestion(s) == s.questions[s.currentQuestionIndex + 1]

Init ==
    /\ gameState = "start"
    /\ questions = <<>>
    /\ currentQuestionIndex = 0
    /\ score = 0
    /\ selectedAnswer = NULL
    /\ isAnswered = FALSE
    /\ loading = FALSE
    /\ error = NULL
    /\ inFlight = 0
    /\ response = <<>>
    /\ selections = <<>>
    /\ ignored = "none"

\* ------------------------------------------------------------- fetching
\* fetchQuestionsBegin, had it also emptied the question list.
fetchQuestionsBegin_ClearsQuestions(s) ==
    [s EXCEPT !.loading = TRUE, !.error = NULL, !.gameState = "active",
              !.selectedAnswer = NULL, !.isAnswered = FALSE,
              !.questions = <<>>]

\* fetchQuestionsBegin, had it not set gameState.
fetchQuestionsBegin_KeepsGameState(s) ==
    [s EXCEPT !.loading = TRUE, !.error = NULL,
              !.selectedAnswer = NULL, !.isAnswered = FALSE]

\* fetchQuestionsBegin, had it not cleared the error.
fetchQuestionsBegin_KeepsError(s) ==
    [s EXCEPT !.loading = TRUE, !.gameState = "active",
              !.selectedAnswer = NULL, !.isAnswered = FALSE]

\* fetchQuestions up to its first await.
fetchQuestionsBegin(s) ==
    [s EXCEPT !.loading = TRUE, !.error = NULL, !.gameState = "active",
              !.selectedAnswer = NULL, !.isAnswered = FALSE]

\* thrown, had the check of data.response_code been left out.
thrown_NoCodeCheck(resp) ==
    IF resp.rejected THEN "Failed to fetch"
    ELSE IF ~resp.ok THEN "Something went wrong. Could not fetch questions."
    ELSE IF ~resp.json THEN "Unexpected token < in JSON at position 0"
    ELSE IF \E i \in 1..Len(resp.results) : ~resp.results[i].has_incorrect
        THEN "Cannot read properties of undefined (reading 'map')"
    ELSE NULL

\* The message of the exception the try block ends with, or NULL when it
\* runs to setQuestions.
thrown(resp) ==
    IF resp.rejected THEN "Failed to fetch"
    ELSE IF ~resp.ok THEN "Something went wrong. Could not fetch questions."
    ELSE IF ~resp.json THEN "Unexpected token < in JSON at position 0"
    ELSE IF resp.response_code # 0
        THEN "There was an issue with the trivia API. Please try again later."
    ELSE IF \E i \in 1..Len(resp.results) : ~resp.results[i].has_incorrect
        THEN "Cannot read properties of undefined (reading 'map')"
    ELSE NULL

\* One formatted question for a raw one, for each order the shuffle picks.
formatQuestion(questionItem) ==
    {[question |-> decodeHtml(questionItem.question),
      correct_answer |-> decodeHtml(questionItem.correct_answer),
      incorrect_answers |-> MapDecode(questionItem.incorrect_answers),
      answers |-> a] :
        a \in shuffleArray(Append(MapDecode(questionItem.incorrect_answers),
                                  decodeHtml(questionItem.correct_answer)))}

\* data.results.map(...): the lists formattedQuestions can be.
RECURSIVE formattedQuestions(_)
formattedQuestions(results) ==
    IF results = <<>> THEN {<<>>}
    ELSE {<<head>> \o tail : head \in formatQuestion(Head(results)),
                            tail \in formattedQuestions(Tail(results))}

\* fetchQuestionsEnd, had the catch block not gone back to the start screen.
fetchQuestionsEnd_StaysActive(s, resp, fq) ==
    IF thrown(resp) = NULL
        THEN [s EXCEPT !.questions = fq, !.loading = FALSE]
        ELSE [s EXCEPT !.error = thrown(resp), !.loading = FALSE]

\* fetchQuestionsEnd, had setLoading(false) stood at the end of the try
\* block instead of in finally.
fetchQuestionsEnd_NoFinally(s, resp, fq) ==
    IF thrown(resp) = NULL
        THEN [s EXCEPT !.questions = fq, !.loading = FALSE]
        ELSE [s EXCEPT !.error = thrown(resp), !.gameState = "start"]

\* fetchQuestions from the resolution of the fetch to the end of finally.
fetchQuestionsEnd(s, resp, fq) ==
    IF thrown(resp) = NULL
        THEN [s EXCEPT !.questions = fq, !.loading = FALSE]
        ELSE [s EXCEPT !.error = thrown(resp), !.gameState = "start",
                       !.loading = FALSE]

\* ------------------------------------------------------------- handlers
\* handleStartQuiz, had it not reset the score.
handleStartQuiz_KeepsScore(s) ==
    fetchQuestionsBegin([s EXCEPT !.currentQuestionIndex = 0])

\* handleStartQuiz, had it not reset the index.
handleStartQuiz_KeepsIndex(s) ==
    fetchQuestionsBegin([s EXCEPT !.score = 0])

handleStartQuiz(s) ==
    fetchQuestionsBegin([s EXCEPT !.score = 0, !.currentQuestionIndex = 0])

\* handleAnswerSelect, without its isAnswered guard.
handleAnswerSelect_NoGuard(s, answer) ==
    [s EXCEPT !.selectedAnswer = answer,
              !.isAnswered = TRUE,
              !.score = IF answer = currentQuestion(s).correct_answer
                           THEN s.score + 1 ELSE s.score]

\* handleAnswerSelect, had it counted every selection.
handleAnswerSelect_CountsAll(s, answer) ==
    IF s.isAnswered THEN s
    ELSE [s EXCEPT !.selectedAnswer = answer,
                   !.isAnswered = TRUE,
                   !.score = s.score + 1]

\* handleAnswerSelect, had a wrong answer cost a point.
handleAnswerSelect_Penalises(s, answer) ==
    IF s.isAnswered THEN s
    ELSE [s EXCEPT !.selectedAnswer = answer,
                   !.isAnswered = TRUE,
                   !.score = IF answer = currentQuestion(s).correct_answer
                                THEN s.score + 1 ELSE s.score - 1]

handleAnswerSelect(s, answer) ==
    IF s.isAnswered THEN s
    ELSE [s EXCEPT !.selectedAnswer = answer,
                   !.isAnswered = TRUE,
                   !.score = IF answer = currentQuestion(s).correct_answer
                                THEN s.score + 1 ELSE s.score]

\* handleNextQuestion, had it cleared the selection in both branches.
handleNextQuestion_ClearsAtEnd(s) ==
    IF s.currentQuestionIndex < Len(s.questions) - 1
        THEN [s EXCEPT !.currentQuestionIndex = s.currentQuestionIndex + 1,
                       !.selectedAnswer = NULL,
                       !.isAnswered = FALSE]
        ELSE [s EXCEPT !.gameState = "finished",
                       !.selectedAnswer = NULL,
                       !.isAnswered = FALSE]

\* handleNextQuestion, had it compared the index with length - 2.
handleNextQuestion_StopsEarly(s) ==
    IF s.currentQuestionIndex < Len(s.questions) - 2
        THEN [s EXCEPT !.currentQuestionIndex = s.currentQuestionIndex + 1,
                       !.selectedAnswer = NULL,
                       !.isAnswered = FALSE]
        ELSE [s EXCEPT !.gameState = "finished"]

handleNextQuestion(s) ==
    IF s.currentQuestionIndex < Len(s.questions) - 1
        THEN [s EXCEPT !.currentQuestionIndex = s.currentQuestionIndex + 1,
                       !.selectedAnswer = NULL,
                       !.isAnswered = FALSE]
        ELSE [s EXCEPT !.gameState = "finished"]

\* ------------------------------------------------------------ rendering
\* Screen, had renderContent not put the spinner first.
Screen_NoSpinner(s) ==
    IF s.gameState = "start" THEN "StartScreen"
    ELSE IF s.gameState = "finished" THEN "ResultScreen"
    ELSE IF s.gameState = "active" /\ Len(s.questions) > 0 THEN "question"
    ELSE "null"

\* renderContent: what is on the screen in state s.
Screen(s) ==
    IF s.loading THEN "spinner"
    ELSE IF s.gameState = "start" THEN "StartScreen"
    ELSE IF s.gameState = "finished" THEN "ResultScreen"
    ELSE IF s.gameState = "active" /\ Len(s.questions) > 0 THEN "question"
    ELSE "null"

\* StartButton, had a start button also been rendered next to the spinner.
StartButton_WithSpinner(s) ==
    Screen(s) \in {"StartScreen", "ResultScreen", "spinner"}

\* onStart of the StartScreen and onRestart of the ResultScreen.
StartButton(s) == Screen(s) \in {"StartScreen", "ResultScreen"}

\* The enabled answer buttons of the current question.
AnswerButtons(s) ==
    IF Screen(s) = "question" /\ ~s.isAnswered
        THEN {currentQuestion(s).answers[i] :
                 i \in 1..Len(currentQuestion(s).answers)}
        ELSE {}

\* NextButton, had it been rendered with every question.
NextButton_Always(s) == Screen(s) = "question"

\* The Next Question / Finish Quiz button.
NextButton(s) == Screen(s) = "question" /\ s.isAnswered

\* -------------------------------------------------------------- actions
\* A click on Start Quiz or Play Again.
Start ==
    /\ StartButton(st)
    /\ Render(handleStartQuiz(st))
    /\ inFlight' = inFlight + 1
    /\ response' = <<>>
    /\ selections' = <<>>
    /\ ignored' = "none"

\* The pending fetch resolves.
FetchDone ==
    /\ inFlight > 0
    /\ \E resp \in Responses :
          /\ response' = <<resp>>
          /\ \E fq \in (IF thrown(resp) = NULL
                           THEN formattedQuestions(resp.results) ELSE {<<>>}) :
                Render(fetchQuestionsEnd(st, resp, fq))
    /\ inFlight' = inFlight - 1
    /\ ignored' = "none"
    /\ UNCHANGED selections

\* A click on an answer button.
SelectAnswer ==
    /\ \E answer \in AnswerButtons(st) :
          /\ Render(handleAnswerSelect(st, answer))
          /\ selections' = Append(selections, answer)
    /\ ignored' = "none"
    /\ UNCHANGED <<inFlight, response>>

\* A click on Next Question / Finish Quiz.
Advance ==
    /\ NextButton(st)
    /\ Render(handleNextQuestion(st))
    /\ ignored' = "none"
    /\ UNCHANGED <<inFlight, response, selections>>

Next == Start \/ FetchDone \/ SelectAnswer \/ Advance

Spec == Init /\ [][Next]_vars

\* ------------------------------------------------- intents without a button
\* The user means to start while no start button is rendered (spinner,
\* question or blank screen): no handler runs.
StartIgnored ==
    /\ ~StartButton(st)
    /\ ignored' = "start"
    /\ UNCHANGED <<gameState, questions, currentQuestionIndex, score,
                   selectedAnswer, isAnswered, loading, error, inFlight,
                   response, selections>>

\* The user means to select an answer while no enabled answer button is
\* rendered: no handler runs.
SelectIgnored ==
    /\ AnswerButtons(st) = {}
    /\ ignored' = "selectAnswer"
    /\ UNCHANGED <<gameState, questions, currentQuestionIndex, score,
                   selectedAnswer, isAnswered, loading, error, inFlight,
                   response, selections>>

\* The user means to advance while no next button is rendered: no handler
\* runs.
AdvanceIgnored ==
    /\ ~NextButton(st)
    /\ ignored' = "advance"
    /\ UNCHANGED <<gameState, questions, currentQuestionIndex, score,
                   selectedAnswer, isAnswered, loading, error, inFlight,
                   response, selections>>

\* Every intent at every moment: the rendered buttons decide which of them
\* reach a handler.
NextIntents ==
    \/ Start \/ FetchDone \/ SelectAnswer \/ Advance
    \/ StartIgnored \/ SelectIgnored \/ AdvanceIgnored

SpecIntents == Init /\ [][NextIntents]_vars

\* The user keeps clicking the button that is on the screen.
SpecPlay == Init /\ [][Next]_vars /\ WF_vars(SelectAnswer) /\ WF_vars(Advance)

\* ------------------------------------------------------------- phases
\* The session phase a state s is in: Loading while the spinner shows,
\* NotStarted or Failed on the start screen (without or with an error),
\* Finished on the result screen, Active otherwise.
PhaseOf(s) ==
    IF s.loading THEN "Loading"
    ELSE IF s.gameState = "start"
        THEN (IF s.error = NULL THEN "NotStarted" ELSE "Failed")
    ELSE IF s.gameState = "finished" THEN "Finished"
    ELSE "Active"

Phase == PhaseOf(st)

\* Every decoded answer string of the bank.
AnswerUniverse ==
    UNION {{decodeHtml(q.correct_answer)} \cup
           {decodeHtml(q.incorrect_answers[i]) : i \in 1..Len(q.incorrect_answers)} :
              q \in RawPool}

\* This run's fetch has resolved, and to a failure.
FetchFailed == Len(response) = 1 /\ thrown(response[1]) # NULL

TypeOK ==
    /\ gameState \in {"start", "active", "finished"}
    /\ currentQuestionIndex \in 0..MaxResults
    /\ score \in 0..MaxResults
    /\ selectedAnswer \in AnswerUniverse \cup {NULL}
    /\ isAnswered \in BOOLEAN
    /\ loading \in BOOLEAN
    /\ inFlight \in 0..1
    /\ Len(response) <= 1
    /\ Len(selections) <= MaxResults
    /\ ignored \in {"none", "start", "selectAnswer", "advance"}
\* ------------------------------------------------------------- claims

\* C1: while the current question is locked, selectAnswer is a no-op: in
\* every state that shows a question, selecting a and then b leaves score,
\* selectedAnswer and isAnswered as the first selection left them.
C1_SecondSelectIgnored ==
    Screen(st) = "question" =>
        \A a, b \in AnswerUniverse :
            LET s1 == handleAnswerSelect(st, a)
                s2 == handleAnswerSelect(s1, b)
            IN  /\ s2.score = s1.score
                /\ s2.selectedAnswer = s1.selectedAnswer
                /\ s2.isAnswered = s1.isAnswered

\* C1 witness: a first selection has been made and counted, and another
\* answer of the same question is still on the screen.
C1_Witness ==
    /\ Screen(st) = "question"
    /\ isAnswered
    /\ selectedAnswer = currentQuestion(st).correct_answer
    /\ score = currentQuestionIndex + 1
    /\ Len(currentQuestion(st).answers) >= 2

\* C2: start() applied to any reachable state gives score 0, index 0, no
\* selection, no lock, no error and the Loading phase.
C2_StartResets ==
    LET s == handleStartQuiz(st)
    IN  /\ s.score = 0
        /\ s.currentQuestionIndex = 0
        /\ s.selectedAnswer = NULL
        /\ s.isAnswered = FALSE
        /\ s.error = NULL
        /\ PhaseOf(s) = "Loading"

\* C2 witness: a restart is loading after a finished run of two questions,
\* whose index was 1 and whose last question was locked.
C2_Witness ==
    /\ Phase = "Loading"
    /\ Len(questions) >= 2
    /\ inFlight = 1

\* C3 as stated: whenever the session is Loading or Failed, questions is
\* empty.
C3_QuestionsEmptyWhenLoadingOrFailed ==
    Phase \in {"Loading", "Failed"} => questions = <<>>

\* C3 as amended: start() leaves questions as it is, and questions changes
\* only in the step in which a fetch resolves successfully.
C3_QuestionsChangeOnlyOnSuccess ==
    [][ /\ (~loading /\ loading' => questions' = questions)
        /\ (questions' # questions =>
               /\ loading /\ ~loading'
               /\ Len(response') = 1 /\ thrown(response'[1]) = NULL
               /\ PhaseOf(st)' = "Active") ]_vars

\* C3 witness: a restart after a completed quiz has failed, and the previous
\* run's questions are still held.
C3_Witness ==
    /\ Phase = "Failed"
    /\ FetchFailed
    /\ questions # <<>>

\* C4: score never exceeds the number of questions answered in this run.
C4_ScoreBound ==
    score <= currentQuestionIndex + (IF isAnswered THEN 1 ELSE 0)

\* C4 witness: every question so far was answered correctly, the second
\* included.
C4_Witness ==
    /\ currentQuestionIndex >= 1
    /\ isAnswered
    /\ score = currentQuestionIndex + 1

\* C5: in the Active phase the index points at a question.
C5_ActiveHasCurrentQuestion ==
    Phase = "Active" =>
        0 <= currentQuestionIndex /\ currentQuestionIndex < Len(questions)

\* C6: in the Finished phase the index is the last question's, that
\* question is locked, and there is at least one question.
C6_FinishedAtLastLocked ==
    Phase = "Finished" =>
        /\ currentQuestionIndex = Len(questions) - 1
        /\ isAnswered
        /\ Len(questions) >= 1

\* C6 witness: a quiz of two questions is finished.
C6_Witness ==
    /\ Phase = "Finished"
    /\ Len(questions) >= 2
    /\ Len(selections) = Len(questions)

\* C7: advance on the locked last question only sets the phase to Finished;
\* once Finished, neither handler changes the score, and the score stays as
\* it is until a start.
C7_FinishFreezesScore ==
    /\ [](/\ (Screen(st) = "question" /\ isAnswered
               /\ currentQuestionIndex = Len(questions) - 1)
              => handleNextQuestion(st) = [st EXCEPT !.gameState = "finished"]
          /\ Phase = "Finished"
              => /\ handleNextQuestion(st).score = score
                 /\ \A a \in AnswerUniverse :
                        handleAnswerSelect(st, a).score = score)
    /\ [][Phase = "Finished" =>
             \/ score' = score /\ PhaseOf(st)' = "Finished"
             \/ PhaseOf(st)' = "Loading" /\ inFlight' = inFlight + 1]_vars

\* C7 witness: the quiz is finished with a non-zero score.
C7_Witness ==
    /\ Phase = "Finished"
    /\ score >= 1
    /\ selectedAnswer # NULL

\* C8: an effective selection stores the answer, locks the question and
\* adds 1 to the score exactly when the answer is the question's correct
\* answer; at Finished the score is the number of questions whose
\* selection was their correct answer.
C8_ScoreCountsCorrect ==
    /\ AnswerButtons(st) # {} =>
          \A a \in AnswerUniverse :
              LET s == handleAnswerSelect(st, a)
              IN  /\ s.selectedAnswer = a
                  /\ s.isAnswered
                  /\ s.score = score +
                        (IF a = currentQuestion(st).correct_answer THEN 1 ELSE 0)
    /\ Phase = "Finished" =>
          /\ Len(selections) = Len(questions)
          /\ score = Cardinality({i \in 1..Len(questions) :
                                   selections[i] = questions[i].correct_answer})

\* C8 witness: a finished quiz of two questions, one answered correctly and
\* one not.
C8_Witness ==
    /\ Phase = "Finished"
    /\ Len(questions) >= 2
    /\ score = Len(questions) - 1

\* C9: after a failed fetch the session is Failed with an error and score
\* 0, and in the Failed phase nothing is pending and the only button is
\* the start button.
C9_FailureIsStable ==
    /\ FetchFailed =>
          /\ Phase = "Failed"
          /\ gameState = "start" /\ ~loading
          /\ error = thrown(response[1])
          /\ score = 0
    /\ Phase = "Failed" =>
          /\ inFlight = 0
          /\ AnswerButtons(st) = {}
          /\ ~NextButton(st)
          /\ StartButton(st)

\* C9 witness: the fetch of a restart after a played quiz was answered with
\* a failure HTTP status.
C9_Witness ==
    /\ FetchFailed
    /\ questions # <<>>
    /\ ~response[1].rejected /\ ~response[1].ok
    /\ Phase = "Failed"

\* C10: questions is set, and the session Active, only for a response with
\* a success status and response_code 0; any other response leaves
\* questions as it was and the session Failed.
C10_AllOrNothing ==
    /\ [](/\ Phase \in {"Active", "Finished"} =>
                /\ Len(response) = 1
                /\ response[1].ok /\ response[1].response_code = 0
          /\ (Len(response) = 1
               /\ (~response[1].ok \/ response[1].response_code # 0))
              => Phase = "Failed")
    /\ [][Len(response) = 0 /\ Len(response') = 1 =>
             IF response'[1].ok /\ response'[1].response_code = 0
                 THEN questions' # questions => PhaseOf(st)' = "Active"
                 ELSE questions' = questions /\ PhaseOf(st)' = "Failed"]_vars

\* C10 witness: the bank answered with response_code 1 and results, and
\* none of them was stored.
C10_Witness ==
    /\ Len(response) = 1
    /\ response[1].ok /\ response[1].response_code = 1
    /\ Len(response[1].results) >= 1
    /\ Phase = "Failed"

\* C11: no state without a pending fetch is stuck: a select, advance or
\* start button is on the screen.
C11_NeverStuck ==
    inFlight = 0 =>
        AnswerButtons(st) # {} \/ NextButton(st) \/ StartButton(st)

\* C12 as stated: once a start has been issued while a fetch is pending,
\* the completion of that fetch changes none of gameState, questions, error
\* and loading.
C12_StaleCompletionDiscarded ==
    [][(ignored = "start" /\ inFlight > 0 /\ inFlight' < inFlight) =>
           UNCHANGED <<gameState, questions, error, loading>>]_vars

\* C12 as amended: no start takes effect while a fetch is pending: while
\* Loading no start button is rendered, at most one fetch is in flight, and
\* one is in flight exactly while loading.
C12_NoStartWhilePending ==
    /\ inFlight <= 1
    /\ loading <=> inFlight = 1
    /\ inFlight > 0 => ~StartButton(st)

\* C12 witness: a start was meant while the fetch of a restart was pending,
\* and found no button.
C12_Witness ==
    /\ inFlight = 1
    /\ loading
    /\ ignored = "start"
    /\ questions # <<>>

\* C13: while Loading no select or advance takes effect: no step taken
\* while loading changes score, index, selection or lock, and gameState
\* changes only as the fetch resolves.
C13_LoadingIgnoresIntents ==
    /\ [](loading => AnswerButtons(st) = {} /\ ~NextButton(st))
    /\ [][loading =>
             /\ score' = score
             /\ currentQuestionIndex' = currentQuestionIndex
             /\ selectedAnswer' = selectedAnswer
             /\ isAnswered' = isAnswered
             /\ (gameState' = gameState \/ inFlight' < inFlight)]_vars

\* C13 witness: an answer was meant while a restart was loading with the
\* previous run's questions still held, and found no button.
C13_Witness ==
    /\ Phase = "Loading"
    /\ questions # <<>>
    /\ ignored = "selectAnswer"

\* C14: advance takes effect only in the Active phase with the question
\* locked: elsewhere no next button is rendered, and every step that moves
\* the index, finishes the quiz or unlocks the question, other than a
\* start, starts from Active and locked.
C14_AdvanceOnlyWhenLocked ==
    /\ [](NextButton(st) => Phase = "Active" /\ isAnswered)
    /\ [][(/\ ~loading'
            /\ \/ currentQuestionIndex' # currentQuestionIndex
               \/ gameState' = "finished" /\ gameState # "finished"
               \/ isAnswered /\ ~isAnswered')
           => Phase = "Active" /\ isAnswered]_vars

\* C14 witness: an advance was meant on an unanswered second question, and
\* found no button.
C14_Witness ==
    /\ Phase = "Active"
    /\ currentQuestionIndex >= 1
    /\ ~isAnswered
    /\ ignored = "advance"

\* The phase changes the session design allows.
PhaseEdges ==
    { <<"NotStarted", "Loading">>, <<"Loading", "Active">>,
      <<"Loading", "Failed">>, <<"Active", "Active">>,
      <<"Active", "Finished">>, <<"Finished", "Loading">>,
      <<"Failed", "Loading">> }

\* C15: the session starts NotStarted and every step changes the phase
\* along one of the allowed edges.
C15_PhaseEdgesOnly ==
    /\ Phase = "NotStarted"
    /\ [][(<<Phase, PhaseOf(st)'>> \in PhaseEdges)]_vars

\* C15 witness: the Active self-edge has been taken: the second question is
\* on the screen, not yet answered.
C15_Witness ==
    /\ Phase = "Active"
    /\ currentQuestionIndex = 1
    /\ ~isAnswered
    /\ selectedAnswer = NULL

\* C16: score is never negative; it gets smaller only in a start, which
\* sets it to 0; the resolution of a fetch and an advance leave it alone.
C16_ScoreMonotone ==
    /\ [](score >= 0)
    /\ [][/\ score' < score => ~loading /\ loading' /\ score' = 0
          /\ inFlight' < inFlight => score' = score
          /\ (~loading' /\ (currentQuestionIndex' # currentQuestionIndex
                             \/ gameState' # gameState))
                => score' = score]_vars

\* C16 witness: the score has grown twice in one run.
C16_Witness ==
    /\ score >= 2
    /\ Phase = "Active"

\* The number of positions of seq that hold x.
Count(seq, x) == Cardinality({i \in 1..Len(seq) : seq[i] = x})

\* The answer strings of a raw question as sent: incorrect ones, then the
\* correct one.
SourceAnswers(raw) == Append(raw.incorrect_answers, raw.correct_answer)

\* No string occurs twice in seq.
Distinct(seq) == \A i, j \in 1..Len(seq) : i # j => seq[i] # seq[j]

\* The formatted question fq is as C17 says of the raw question it was
\* made from.
WellFormatted(raw, fq) ==
    /\ Len(fq.answers) = Len(raw.incorrect_answers) + 1
    /\ \A x \in AnswerUniverse :
          Count(fq.answers, x) =
              Count(Append(MapDecode(raw.incorrect_answers),
                           decodeHtml(raw.correct_answer)), x)
    /\ fq.correct_answer = decodeHtml(raw.correct_answer)
    /\ Count(fq.answers, fq.correct_answer) = 1

\* C17 as stated: every stored question made from a raw question whose
\* n+1 answer strings are distinct as sent has n+1 answers, the decoded
\* pool as a multiset, and its correct answer exactly once.
C17_FormatDistinctSource ==
    (Phase \in {"Active", "Finished"} /\ Len(response) = 1) =>
        \A i \in 1..Len(questions) :
            Distinct(SourceAnswers(response[1].results[i]))
                => WellFormatted(response[1].results[i], questions[i])

\* C17 as amended: the same for every raw question whose n+1 answer
\* strings are distinct after decoding.
C17_FormatDistinctDecoded ==
    (Phase \in {"Active", "Finished"} /\ Len(response) = 1) =>
        \A i \in 1..Len(questions) :
            Distinct(MapDecode(SourceAnswers(response[1].results[i])))
                => WellFormatted(response[1].results[i], questions[i])

\* C17 witness: a question with three distinct answers is stored, and the
\* shuffle has moved its correct answer from the last place to the first.
C17_Witness ==
    /\ Phase = "Active"
    /\ Len(response) = 1
    /\ Len(questions) >= 1
    /\ Len(questions[1].answers) = 3
    /\ Distinct(MapDecode(SourceAnswers(response[1].results[1])))
    /\ questions[1].answers[1] = questions[1].correct_answer

\* C18: a user who keeps clicking the button on the screen finishes every
\* quiz of n >= 1 questions; the index goes up by one per advance, one
\* selection is made per question, and at Finished n selections have been
\* made and the index is n - 1.
C18_PlayReachesFinished ==
    /\ []((Screen(st) = "question" \/ Phase = "Finished") =>
             Len(selections) =
                 currentQuestionIndex + (IF isAnswered THEN 1 ELSE 0))
    /\ [](Phase = "Finished" =>
             /\ Len(selections) = Len(questions)
             /\ currentQuestionIndex = Len(questions) - 1)
    /\ [][(~loading /\ ~loading') =>
             currentQuestionIndex' \in
                 {currentQuestionIndex, currentQuestionIndex + 1}]_vars
    /\ ((Phase = "Active" /\ Len(questions) >= 1) ~> Phase = "Finished")

\* C18 witness: a quiz of two questions was played to the end with every
\* answer wrong.
C18_Witness ==
    /\ Phase = "Finished"
    /\ Len(questions) >= 2
    /\ Len(selections) = Len(questions)
    /\ score = 0

\* C19: loading is set exactly while a fetch is pending, and the step in
\* which the fetch resolves clears it and leaves the session Active or
\* Failed.
C19_LoadingClearedOnCompletion ==
    /\ [](loading <=> inFlight > 0)
    /\ [][inFlight' < inFlight =>
             ~loading' /\ PhaseOf(st)' \in {"Active", "Failed"}]_vars

\* C19 witness: formatting a result threw, and the session is Failed, not
\* Loading.
C19_Witness ==
    /\ Len(response) = 1
    /\ response[1].ok /\ response[1].json /\ response[1].response_code = 0
    /\ thrown(response[1]) # NULL
    /\ ~loading
    /\ Phase = "Failed"

\* C20: the error is set only on the start screen with loading off; in
\* the Loading, Active and Finished phases it is null.
C20_ErrorOnlyWhenFailed ==
    /\ error # NULL => gameState = "start" /\ ~loading
    /\ Phase \in {"Loading", "Active", "Finished"} => error = NULL

\* C20 witness: the fetch was rejected and its message is on the start
\* screen.
C20_Witness ==
    /\ error = "Failed to fetch"
    /\ gameState = "start"
    /\ ~loading
====
